---- MODULE Spec2Model ----
(***************************************************************************)
(* Model of the unit-conversion workflow: the default-unit store           *)
(* (src/src/defaults.py, class Defaults) and the query parser and          *)
(* converter (src/src/convert.py, class Converter) working against the     *)
(* process-wide pint unit registry `ureg`.                                 *)
(*                                                                         *)
(* Strings that the code scans character by character (queries) are        *)
(* sequences of one-character strings.  Strings that the code only         *)
(* compares or passes on (unit names, dimensionalities, context names)     *)
(* are TLA+ strings; Chars/Str convert between the two.                    *)
(***************************************************************************)
EXTENDS Integers, Sequences, FiniteSets, TLC

VARIABLES
    _defs,      \* Defaults._defs: defaultdict(list), dimensionality -> list of units
    _settings,  \* Defaults._settings: the settings store (key -> value)
    enabled,    \* contexts enabled in the global registry `ureg`
    last        \* the most recent call and what it returned or raised

vars == <<_defs, _settings, enabled, last>>

----------------------------------------------------------------------------
(* Bounds of the model *)

\* longest unit tail (in tokens) of the enumerated queries
MaxUnits == 3

\* longest list of a dimensionality in the settings the store is loaded from
MaxInitLen == 1

----------------------------------------------------------------------------
(* Generic sequence helpers (Python list / str primitives) *)

\* s[n:]
Drop(s, n) == IF n >= Len(s) THEN <<>> ELSE SubSeq(s, n + 1, Len(s))

\* s[:n]
Take(s, n) == IF n >= Len(s) THEN s ELSE SubSeq(s, 1, n)

Range(s) == {s[i] : i \in 1..Len(s)}

\* x in s
Contains(s, x) == \E i \in 1..Len(s) : s[i] = x

\* s.count(x)
Count(s, x) == Cardinality({i \in 1..Len(s) : s[i] = x})

NoDup(s) == \A i, j \in 1..Len(s) : s[i] = s[j] => i = j

\* [x for x in s if x != y]
RECURSIVE Without(_, _)
Without(s, y) ==
    IF s = <<>> THEN <<>>
    ELSE IF Head(s) = y THEN Without(Tail(s), y)
    ELSE <<Head(s)>> \o Without(Tail(s), y)

\* list.remove(x): drops the first occurrence only
RECURSIVE RemoveFirst(_, _)
RemoveFirst(s, x) ==
    IF s = <<>> THEN <<>>
    ELSE IF Head(s) = x THEN Tail(s)
    ELSE <<Head(s)>> \o RemoveFirst(Tail(s), x)

\* number of leading elements of s that lie in set
RECURSIVE LeadLen(_, _)
LeadLen(s, set) ==
    IF s = <<>> \/ Head(s) \notin set THEN 0
    ELSE 1 + LeadLen(Tail(s), set)

RECURSIVE LStrip(_)
LStrip(s) == IF s # <<>> /\ Head(s) = " " THEN LStrip(Tail(s)) ELSE s

RECURSIVE RStrip(_)
RStrip(s) ==
    IF s # <<>> /\ s[Len(s)] = " " THEN RStrip(SubSeq(s, 1, Len(s) - 1)) ELSE s

\* str.strip()
Strip(s) == RStrip(LStrip(s))

\* str.split(): the maximal runs of non-blank characters
RECURSIVE Split(_)
Split(s) ==
    LET t == LStrip(s)
        n == LeadLen(t, {t[i] : i \in 1..Len(t)} \ {" "})
    IN  IF t = <<>> THEN <<>>
        ELSE <<Take(t, n)>> \o Split(Drop(t, n))

----------------------------------------------------------------------------
(* Words: the strings of the model and their spelling *)

Words ==
    {"km", "m", "cm", "g", "kilometer", "meter", "centimeter", "gram",
     "zz", "sp", "xx"}

Chars(w) ==
    CASE w = "km" -> <<"k", "m">>
      [] w = "m" -> <<"m">>
      [] w = "cm" -> <<"c", "m">>
      [] w = "g" -> <<"g">>
      [] w = "kilometer" -> <<"k", "i", "l", "o", "m", "e", "t", "e", "r">>
      [] w = "meter" -> <<"m", "e", "t", "e", "r">>
      [] w = "centimeter" ->
            <<"c", "e", "n", "t", "i", "m", "e", "t", "e", "r">>
      [] w = "gram" -> <<"g", "r", "a", "m">>
      [] w = "zz" -> <<"z", "z">>
      [] w = "sp" -> <<"s", "p">>
      [] w = "xx" -> <<"x", "x">>
      [] OTHER -> <<>>

\* the string a character sequence spells; "?" stands for every other string
Str(cs) ==
    IF \E w \in Words : Chars(w) = cs
    THEN CHOOSE w \in Words : Chars(w) = cs
    ELSE IF cs = <<>> THEN "" ELSE "?"

----------------------------------------------------------------------------
(* The unit registry `ureg` (pint), as far as the code uses it *)

\* what no value stands for
None == "<None>"

\* the name the registry renders a unit with; None for an undefined unit
Canonical(u) ==
    CASE u \in {"km", "kilometer"} -> "kilometer"
      [] u \in {"m", "meter"} -> "meter"
      [] u \in {"cm", "centimeter"} -> "centimeter"
      [] u \in {"g", "gram"} -> "gram"
      [] OTHER -> None

Dimensionality(c) ==
    CASE c \in {"kilometer", "meter", "centimeter"} -> "[length]"
      [] c = "gram" -> "[mass]"
      [] OTHER -> None

\* power of ten of a unit relative to the base unit of its dimensionality
Scale(c) ==
    CASE c = "kilometer" -> 3
      [] c = "centimeter" -> 0 - 2
      [] OTHER -> 0

KnownContexts == {"sp"}

\* a decimal number m * 10^(-e), with no trailing zero in the fraction
RECURSIVE Norm(_, _)
Norm(m, e) ==
    IF e < 0 THEN Norm(m * 10, e + 1)
    ELSE IF e > 0 /\ m % 10 = 0 THEN Norm(m \div 10, e - 1)
    ELSE [m |-> m, e |-> e]

\* ureg.Quantity(n, u): ok is FALSE for UndefinedUnitError
Quantity(n, u) ==
    [ok |-> Canonical(u) # None, magnitude |-> n, units |-> Canonical(u)]

\* qty.to(unit): ok is FALSE for DimensionalityError
To(qty, unit) ==
    [ok |-> Dimensionality(qty.units) = Dimensionality(unit.units),
     magnitude |-> Norm(qty.magnitude.m,
                        qty.magnitude.e - (Scale(qty.units) - Scale(unit.units))),
     units |-> unit.units]

----------------------------------------------------------------------------
(* Defaults (src/src/defaults.py) *)

Dims == {"[length]", "[mass]"}

\* the units the front end saves or deletes as defaults
Units == {"kilometer", "meter", "zz"}

EmptyMap == [d \in {} |-> <<>>]

\* defaultdict(list).__getitem__: a missing key is created with an empty list
Missing(defs, d) == IF d \in DOMAIN defs THEN defs ELSE (d :> <<>>) @@ defs

\* settings.get('default_units', {})
Stored(settings) ==
    IF "default_units" \in DOMAIN settings THEN settings["default_units"]
    ELSE EmptyMap

\* Defaults._load
_load(settings) == Stored(settings)

\* Defaults._save: settings['default_units'] = dict(self._defs)
_save(defs, settings) == ("default_units" :> defs) @@ settings

\* Defaults.is_default: the value returned (the lookup creates the key)
is_default(defs, d, u) == Contains(Missing(defs, d)[d], u)

\* Defaults.defaults: the copy returned (the lookup creates the key)
defaults(defs, d) == Missing(defs, d)[d]

\* add without the is_default test
add_unchecked(defs, settings, d, u) ==
    LET n == [Missing(defs, d) EXCEPT ![d] = Append(@, u)]
    IN  [defs |-> n, settings |-> _save(n, settings), wrote |-> TRUE]

\* add with _save outside the test
add_always_saves(defs, settings, d, u) ==
    LET m == Missing(defs, d)
        n == IF Contains(m[d], u) THEN m ELSE [m EXCEPT ![d] = Append(@, u)]
    IN  [defs |-> n, settings |-> _save(n, settings), wrote |-> TRUE]

\* add with insert(0, unit) for append(unit)
add_prepends(defs, settings, d, u) ==
    LET m == Missing(defs, d)
        n == [m EXCEPT ![d] = <<u>> \o @]
    IN  IF ~Contains(m[d], u)
        THEN [defs |-> n, settings |-> _save(n, settings), wrote |-> TRUE]
        ELSE [defs |-> m, settings |-> settings, wrote |-> FALSE]

\* Defaults.add: the store after the call and whether _save ran
add(defs, settings, d, u) ==
    LET m == Missing(defs, d)
        n == [m EXCEPT ![d] = Append(@, u)]
    IN  IF ~is_default(defs, d, u)
        THEN [defs |-> n, settings |-> _save(n, settings), wrote |-> TRUE]
        ELSE [defs |-> m, settings |-> settings, wrote |-> FALSE]

\* remove without _save
remove_unsaved(defs, settings, d, u) ==
    [defs |-> [Missing(defs, d) EXCEPT ![d] = RemoveFirst(@, u)],
     settings |-> settings, wrote |-> FALSE]

\* Defaults.remove: the store after the call and whether _save ran
remove(defs, settings, d, u) ==
    LET m == Missing(defs, d)
        n == [m EXCEPT ![d] = RemoveFirst(@, u)]
    IN  IF is_default(defs, d, u)
        THEN [defs |-> n, settings |-> _save(n, settings), wrote |-> TRUE]
        ELSE [defs |-> m, settings |-> settings, wrote |-> FALSE]

----------------------------------------------------------------------------
(* Converter (src/src/convert.py) *)

\* Converter.__init__ defaults
decimal_separator == "."

thousands_separator == ","

Lower ==
    {"a", "b", "c", "d", "e", "f", "g", "h", "i", "j", "k", "l", "m",
     "n", "o", "p", "q", "r", "s", "t", "u", "v", "w", "x", "y", "z"}

Digits == {"0", "1", "2", "3", "4", "5", "6", "7", "8", "9"}

DigitVal(c) ==
    CASE c = "0" -> 0 [] c = "1" -> 1 [] c = "2" -> 2 [] c = "3" -> 3
      [] c = "4" -> 4 [] c = "5" -> 5 [] c = "6" -> 6 [] c = "7" -> 7
      [] c = "8" -> 8 [] c = "9" -> 9 [] OTHER -> 0

\* '+-1234567890' + self.thousands_separator + self.decimal_separator
qtychars == {"+", "-"} \cup Digits \cup {thousands_separator, decimal_separator}

RECURSIVE DigitsValue(_)
DigitsValue(ds) ==
    IF ds = <<>> THEN 0
    ELSE 10 * DigitsValue(SubSeq(ds, 1, Len(ds) - 1)) + DigitVal(ds[Len(ds)])

NoNumber == [m |-> 0, e |-> 0]

\* float(text) for a text of signs, digits and points;
\* ok is FALSE where float raises ValueError
Float(cs) ==
    LET signed == cs # <<>> /\ Head(cs) \in {"+", "-"}
        body == IF signed THEN Tail(cs) ELSE cs
        ds == Without(body, ".")
        dot == LeadLen(body, Digits)
        ok == /\ ds # <<>>
              /\ Range(ds) \subseteq Digits
              /\ Len(body) - Len(ds) <= 1
        frac == IF Len(body) > Len(ds) THEN Len(body) - dot - 1 ELSE 0
        v == DigitsValue(ds)
    IN  IF ok
        THEN [ok |-> TRUE,
              value |-> Norm(IF signed /\ Head(cs) = "-" THEN 0 - v ELSE v, frac)]
        ELSE [ok |-> FALSE, value |-> NoNumber]

\* the list `qty` that parse_quantity builds from the characters it scans
RECURSIVE QtyList(_)
QtyList(run) ==
    IF run = <<>> THEN <<>>
    ELSE LET c == Head(run)
             plus == IF c = "+" THEN <<"">> ELSE <<>>
             rest == IF c = thousands_separator THEN <<"">>
                     ELSE IF c = decimal_separator THEN <<".">>
                     ELSE <<c>>
         IN  plus \o rest \o QtyList(Tail(run))

\* Converter.parse_quantity: kind is "none" for (None, ''), "error" where
\* float raises
parse_quantity(query) ==
    LET qty == QtyList(Take(query, LeadLen(query, qtychars)))
        f == Float(Without(qty, ""))
    IN  IF Len(qty) = 0
        THEN [kind |-> "none", qty |-> NoNumber, tail |-> <<>>]
        ELSE IF ~f.ok
        THEN [kind |-> "error", qty |-> NoNumber, tail |-> Strip(Drop(query, Len(qty)))]
        ELSE [kind |-> "number", qty |-> f.value, tail |-> Strip(Drop(query, Len(qty)))]

\* Converter.parse_context: the context, the rest of the query, the error
parse_context(query) ==
    LET n == LeadLen(query, Lower)
        ctx == Str(Take(query, n))
    IN  IF n = 0 THEN [err |-> "", ctx |-> "", query |-> query]
        ELSE IF ctx \notin KnownContexts
        THEN [err |-> "Unknown context", ctx |-> ctx, query |-> query]
        ELSE [err |-> "", ctx |-> ctx, query |-> Strip(Drop(query, n))]

NoQuantity == [ok |-> FALSE, magnitude |-> NoNumber, units |-> None]

\* Converter.parse_units, for a non-empty tail
parse_units(tail, qty) ==
    LET units == Split(tail)
        from_unit == Quantity(qty, Str(units[1]))
        to_unit == IF Len(units) > 1 THEN Quantity([m |-> 1, e |-> 0], Str(units[2]))
                   ELSE NoQuantity
    IN  IF Len(units) > 2
        THEN [err |-> "More than 2 units specified", tok |-> <<>>,
              from_unit |-> NoQuantity, to_unit |-> NoQuantity]
        ELSE IF ~from_unit.ok
        THEN [err |-> "Unknown unit", tok |-> units[1],
              from_unit |-> NoQuantity, to_unit |-> NoQuantity]
        ELSE IF Len(units) > 1 /\ ~to_unit.ok
        THEN [err |-> "Unknown unit", tok |-> units[2],
              from_unit |-> NoQuantity, to_unit |-> NoQuantity]
        ELSE [err |-> "", tok |-> <<>>, from_unit |-> from_unit, to_unit |-> to_unit]

NoInput ==
    [number |-> NoNumber, dimensionality |-> None, from_unit |-> None,
     to_unit |-> None, context |-> ""]

\* Converter.parse: the Input or the ValueError raised, and the context that
\* parse_context enabled in the registry on the way ("" for none)
parse(query) ==
    LET c == parse_context(query)
        q == parse_quantity(c.query)
        p == parse_units(q.tail, q.qty)
        fail(msg, tok, on) ==
            [err |-> msg, tok |-> tok, input |-> NoInput, enable |-> on]
    IN  IF c.err # "" THEN fail(c.err, Take(query, LeadLen(query, Lower)), "")
        ELSE IF q.kind = "none"
        THEN fail(IF c.ctx # "" THEN "No quantity"
                  ELSE "Start your query with a number", <<>>, c.ctx)
        ELSE IF q.kind = "error"
        THEN fail("could not convert string to float", <<>>, c.ctx)
        ELSE IF Len(q.tail) = 0 THEN fail("No units specified", <<>>, c.ctx)
        ELSE IF p.err # "" THEN fail(p.err, p.tok, c.ctx)
        ELSE [err |-> "", tok |-> <<>>, enable |-> c.ctx,
              input |-> [number |-> p.from_unit.magnitude,
                         dimensionality |-> Dimensionality(p.from_unit.units),
                         from_unit |-> p.from_unit.units,
                         to_unit |-> IF p.to_unit.ok THEN p.to_unit.units ELSE None,
                         context |-> c.ctx]]

\* the loop of Converter.convert over the destination units
RECURSIVE Conversions(_, _, _)
Conversions(i, units, results) ==
    IF units = <<>> THEN [err |-> "", tok |-> "", results |-> results]
    ELSE LET u == Head(units)
             to_unit == Quantity([m |-> 1, e |-> 0], u)
             conv == To(Quantity(i.number, i.from_unit), to_unit)
         IN  IF ~to_unit.ok
             THEN [err |-> "Unknown unit", tok |-> u, results |-> <<>>]
             ELSE IF ~conv.ok
             THEN [err |-> "DimensionalityError", tok |-> u, results |-> <<>>]
             ELSE Conversions(i, Tail(units),
                      Append(results,
                             [from_number |-> i.number, from_unit |-> i.from_unit,
                              to_number |-> conv.magnitude, to_unit |-> u,
                              dimensionality |-> i.dimensionality]))

\* destinations with from_unit filtered out of an explicit to_unit too
destinations_all_filtered(i, defs) ==
    Without(IF i.to_unit # None THEN <<i.to_unit>>
            ELSE Missing(defs, i.dimensionality)[i.dimensionality], i.from_unit)

\* destinations with from_unit left among the defaults
destinations_unfiltered(i, defs) ==
    IF i.to_unit # None THEN <<i.to_unit>>
    ELSE Missing(defs, i.dimensionality)[i.dimensionality]

\* the destination units of Converter.convert
destinations(i, defs) ==
    IF i.to_unit # None THEN <<i.to_unit>>
    ELSE Without(defaults(defs, i.dimensionality), i.from_unit)

\* Converter.convert: the Conversions or the exception raised
convert(i, defs) ==
    LET units == destinations(i, defs)
    IN  IF units = <<>> THEN [err |-> "NoToUnits", tok |-> "", results |-> <<>>]
        ELSE Conversions(i, units, <<>>)

----------------------------------------------------------------------------
(* Inputs *)

RECURSIVE JoinBlank(_)
JoinBlank(toks) ==
    IF toks = <<>> THEN <<>>
    ELSE IF Len(toks) = 1 THEN Chars(toks[1])
    ELSE Chars(toks[1]) \o <<" ">> \o JoinBlank(Tail(toks))

\* a query: context word, number text and unit words, separated by blanks
Query(ctx, number, toks) ==
    LET rest == number \o (IF toks = <<>> THEN <<>> ELSE <<" ">>) \o JoinBlank(toks)
    IN  IF ctx = "" THEN rest
        ELSE IF rest = <<>> THEN Chars(ctx)
        ELSE Chars(ctx) \o <<" ">> \o rest

\* the queries issued while the defaults are being edited
SessionQueries ==
    {Query("", <<"5">>, <<"km", "m">>), Query("", <<"5">>, <<"km", "km">>),
     Query("", <<"5">>, <<"km">>), Query("", <<"1", ".", "5">>, <<"cm">>),
     Query("", <<"5">>, <<"g">>),
     Query("sp", <<"5">>, <<"m">>), Query("sp", <<>>, <<>>),
     Query("xx", <<"5">>, <<"m">>), Query("", <<>>, <<>>),
     Query("", <<"5">>, <<>>), Query("", <<"5">>, <<"zz">>),
     Query("", <<"5">>, <<"km", "m", "g">>)}

ContextParts == {<<>>, Chars("sp"), Chars("xx")}

Blanks == {<<>>, <<" ">>}

NumberParts ==
    {<<>>, <<"5">>, <<"+", "5">>, <<"1", ",", "5">>, <<"0", ".", "5">>,
     <<"+">>, <<"-", "5">>}

UnitTokens == {"km", "m", "g", "zz"}

UnitTails == UNION {[1..n -> UnitTokens] : n \in 0..MaxUnits}

\* every query made of an optional context, a number text and a unit tail,
\* with or without blanks between them
Queries ==
    {c \o b1 \o n \o b2 \o JoinBlank(t) :
        c \in ContextParts, b1 \in Blanks, n \in NumberParts, b2 \in Blanks,
        t \in UnitTails}

\* the lists without duplicates of at most n units
UnitLists(n) ==
    {l \in UNION {[1..k -> Units] : k \in 0..n} : NoDup(l)}

EmptySettings == [k \in {} |-> EmptyMap]

\* the settings files a store can be loaded from: no 'default_units' key, or
\* a mapping of some dimensionalities to short duplicate-free lists
InitSettings ==
    {EmptySettings} \cup
    {("default_units" :> m) :
        m \in UNION {[D -> UnitLists(MaxInitLen)] : D \in SUBSET Dims}}

ParseSettings ==
    {EmptySettings,
     ("default_units" :> ("[length]" :> <<"meter", "kilometer">>))}

----------------------------------------------------------------------------
(* State machine *)

NoCall ==
    [name |-> "init", d |-> "", u |-> "", ret |-> <<>>, found |-> FALSE,
     wrote |-> FALSE, query |-> <<>>, err |-> "", tok |-> <<>>,
     input |-> NoInput, results |-> <<>>]

\* Defaults.__init__, Converter.__init__ and the registry at import
Start(settings, query) ==
    /\ _settings = settings
    /\ _defs = _load(settings)
    /\ enabled = {}
    /\ last = [NoCall EXCEPT !.query = query]

Init == \E s \in InitSettings : Start(s, <<>>)

InitParse == \E s \in ParseSettings, q \in Queries : Start(s, q)

\* Defaults.defaults(d)
Defaults(d) ==
    /\ _defs' = Missing(_defs, d)
    /\ last' = [NoCall EXCEPT !.name = "defaults", !.d = d,
                              !.ret = defaults(_defs, d)]
    /\ UNCHANGED <<_settings, enabled>>

\* Defaults.is_default(d, u)
IsDefault(d, u) ==
    /\ _defs' = Missing(_defs, d)
    /\ last' = [NoCall EXCEPT !.name = "is_default", !.d = d, !.u = u,
                              !.found = is_default(_defs, d, u)]
    /\ UNCHANGED <<_settings, enabled>>

\* Defaults.add(d, u)
Add(d, u) ==
    LET r == add(_defs, _settings, d, u)
    IN  /\ _defs' = r.defs
        /\ _settings' = r.settings
        /\ last' = [NoCall EXCEPT !.name = "add", !.d = d, !.u = u,
                                  !.wrote = r.wrote]
        /\ UNCHANGED enabled

\* Defaults.remove(d, u)
Remove(d, u) ==
    LET r == remove(_defs, _settings, d, u)
    IN  /\ _defs' = r.defs
        /\ _settings' = r.settings
        /\ last' = [NoCall EXCEPT !.name = "remove", !.d = d, !.u = u,
                                  !.wrote = r.wrote]
        /\ UNCHANGED enabled

\* Converter.parse(q); ureg.enable_contexts is not undone when parse raises
Parse(q) ==
    LET r == parse(q)
    IN  /\ enabled' = IF r.enable = "" THEN enabled ELSE enabled \cup {r.enable}
        /\ last' = [NoCall EXCEPT !.name = "parse", !.query = q, !.err = r.err,
                                  !.tok = r.tok, !.input = r.input]
        /\ UNCHANGED <<_defs, _settings>>

\* Converter.convert(i) for the Input the last parse returned
Convert ==
    /\ last.name \in {"parse", "convert"}
    /\ last.input # NoInput
    /\ LET r == convert(last.input, _defs)
       IN  last' = [last EXCEPT !.name = "convert", !.err = r.err,
                                !.tok = Chars(r.tok), !.results = r.results]
    /\ _defs' = IF last.input.to_unit # None THEN _defs
                ELSE Missing(_defs, last.input.dimensionality)
    /\ UNCHANGED <<_settings, enabled>>

Next ==
    \/ \E d \in Dims : Defaults(d)
    \/ \E d \in Dims, u \in Units : IsDefault(d, u)
    \/ \E d \in Dims, u \in Units : Add(d, u)
    \/ \E d \in Dims, u \in Units : Remove(d, u)
    \/ \E q \in SessionQueries : Parse(q)
    \/ Convert

Spec == Init /\ [][Next]_vars

\* one query, parsed and converted
ParseQuery == Parse(last.query)

NextParse == ParseQuery \/ Convert

SpecParse == InitParse /\ [][NextParse]_vars

----------------------------------------------------------------------------
(* Vocabulary of the properties *)

\* the list a mapping gives for a dimensionality, empty when it has none
Lookup(m, d) == IF d \in DOMAIN m THEN m[d] ELSE <<>>

\* a stands before b in s
Before(s, a, b) == \E i, j \in 1..Len(s) : i < j /\ s[i] = a /\ s[j] = b

\* what the specification says parse_quantity returns: the leading run of
\* quantity characters is removed, one position per character, and the run
\* is read with '+' and thousands separators dropped and the decimal
\* separator as '.'
SpecQuantity(query) ==
    LET n == LeadLen(query, qtychars)
        run == Take(query, n)
        text == [k \in 1..Len(run) |->
                    IF run[k] = decimal_separator THEN "." ELSE run[k]]
        f == Float(Without(Without(text, thousands_separator), "+"))
    IN  [matched |-> n, ok |-> f.ok, qty |-> f.value,
         tail |-> Strip(Drop(query, n))]

\* the number texts that spell a number
Numerals == NumberParts \ {<<>>, <<"+">>}

\* the pairs of known, dimensionally compatible unit words
Compatible ==
    {p \in UnitTokens \X UnitTokens :
        /\ Canonical(p[1]) # None
        /\ Canonical(p[2]) # None
        /\ Dimensionality(Canonical(p[1])) = Dimensionality(Canonical(p[2]))}

\* queries "<N> <unitA> <unitB>" whose destination word is b
FromTo(q, b) ==
    \E n \in Numerals, a \in UnitTokens :
        /\ <<a, b>> \in Compatible
        /\ q = n \o <<" ">> \o Chars(a) \o <<" ">> \o Chars(b)

\* the dimensionality's saved defaults in the state
Saved == Lookup(_defs, last.input.dimensionality)

----------------------------------------------------------------------------
(* Properties *)

\* C1: whatever calls are made on a store loaded from duplicate-free
\* settings, no dimensionality's list holds the same unit twice, in memory
\* or in the settings store.
C1_NoDuplicateUnits ==
    /\ \A d \in DOMAIN _defs : NoDup(_defs[d])
    /\ \A d \in DOMAIN Stored(_settings) : NoDup(Stored(_settings)[d])

C1_Witness ==
    /\ last.name = "add"
    /\ ~last.wrote
    /\ Len(Lookup(_defs, last.d)) >= 2

\* C2: once add(d, u) has returned, calling add(d, u) again changes neither
\* the defaults nor the settings store and does not save (so the pair of
\* calls saves at most once); u stands exactly once in d's list.
C2_AddIdempotent ==
    last.name = "add" =>
        LET again == add(_defs, _settings, last.d, last.u)
        IN  /\ again.defs = _defs
            /\ again.settings = _settings
            /\ ~again.wrote
            /\ Count(Lookup(_defs, last.d), last.u) = 1

C2_Witness ==
    /\ last.name = "add"
    /\ last.wrote
    /\ Len(Lookup(_defs, last.d)) >= 2
    /\ ENABLED Add(last.d, last.u)

\* C3: the mapping in the settings store gives every dimensionality the
\* very list defaults(d) returns; in particular right after an add or a
\* remove that changed the defaults.
C3_PersistedIsCurrent ==
    \A d \in Dims : Lookup(Stored(_settings), d) = defaults(_defs, d)

C3_Witness ==
    /\ last.name = "remove"
    /\ last.wrote
    /\ Len(Lookup(_defs, last.d)) >= 1
    /\ Stored(_settings) = _defs

\* C4 as claimed: a query "<N> <unitA> <unitB>" with known, compatible
\* units parses, and convert returns exactly one Conversion whose to_unit is
\* the word unitB of the query.
C4_ToUnitIsQueryWord ==
    \A b \in UnitTokens :
        FromTo(last.query, b) =>
            /\ last.name \in {"parse", "convert"} => last.err = ""
            /\ last.name = "convert" =>
                /\ Len(last.results) = 1
                /\ last.results[1].to_unit = b

\* C4 as amended: ... exactly one Conversion, whose to_unit is the name the
\* registry renders unitB with, whatever defaults are saved and also when
\* unitB is unitA.
C4_ToUnitIsCanonical ==
    \A b \in UnitTokens :
        FromTo(last.query, b) =>
            /\ last.name \in {"parse", "convert"} => last.err = ""
            /\ last.name = "parse" => last.input.to_unit = Canonical(b)
            /\ last.name = "convert" =>
                /\ Len(last.results) = 1
                /\ last.results[1].to_unit = Canonical(b)

C4_Witness ==
    /\ last.name = "convert"
    /\ last.query = Query("", <<"5">>, <<"km", "km">>)
    /\ Len(last.results) = 1
    /\ last.results[1].to_unit = last.input.from_unit
    /\ Contains(Saved, "meter")

\* C5: convert of an Input without to_unit raises NoToUnits and returns
\* nothing when the dimensionality has no saved default, or none but
\* from_unit.
C5_NoToUnits ==
    (/\ last.name = "convert"
     /\ last.input.to_unit = None
     /\ Range(Saved) \subseteq {last.input.from_unit})
    => /\ last.err = "NoToUnits"
       /\ last.results = <<>>

C5_Witness ==
    /\ last.name = "convert"
    /\ last.input.to_unit = None
    /\ Saved = <<last.input.from_unit>>
    /\ last.err = "NoToUnits"

\* C6: the list of a dimensionality keeps the order in which its units were
\* added (a new unit goes behind the others, the others keep their order);
\* and what convert returns for an Input without to_unit is one Conversion
\* per saved default other than from_unit, in that order, none with to_unit
\* equal to from_unit, each with the Input's dimensionality, number and
\* from_unit.
C6_DefaultsInInsertionOrder ==
    [][/\ \A d \in Dims :
            LET old == Lookup(_defs, d)
                new == Lookup(_defs', d)
            IN  /\ \A a, b \in Range(old) \cap Range(new) :
                      Before(old, a, b) <=> Before(new, a, b)
                /\ \A a \in Range(new) \ Range(old), b \in Range(old) :
                      ~Before(new, a, b)
       /\ (/\ last'.name = "convert"
           /\ last'.input.to_unit = None
           /\ last'.err = "")
          => LET i == last'.input
                 expected == Without(Lookup(_defs', i.dimensionality), i.from_unit)
             IN  /\ Len(last'.results) = Len(expected)
                 /\ \A k \in 1..Len(expected) :
                      /\ last'.results[k].to_unit = expected[k]
                      /\ last'.results[k].to_unit # i.from_unit
                      /\ last'.results[k].dimensionality = i.dimensionality
                      /\ last'.results[k].from_number = i.number
                      /\ last'.results[k].from_unit = i.from_unit]_vars

C6_Witness ==
    /\ last.name = "convert"
    /\ last.input.to_unit = None
    /\ last.input.from_unit = "centimeter"
    /\ Saved = <<"kilometer", "meter">>
    /\ Len(last.results) = 2
    /\ last.results[1].to_unit = "kilometer"
    /\ last.results[2].to_unit = "meter"

\* C7: parse reports what is missing: no quantity character at the head of
\* the query gives "Start your query with a number", or "No quantity" after
\* a context; a quantity with an empty unit tail gives "No units specified";
\* a unit tail of three or more words gives "More than 2 units specified".
C7_MissingParts ==
    LET c == parse_context(last.query)
        s == SpecQuantity(c.query)
    IN  (last.name = "parse" /\ c.err = "") =>
            /\ s.matched = 0 =>
                  last.err = IF c.ctx # "" THEN "No quantity"
                             ELSE "Start your query with a number"
            /\ (s.matched > 0 /\ s.ok /\ s.tail = <<>>) =>
                  last.err = "No units specified"
            /\ (s.matched > 0 /\ s.ok /\ Len(Split(s.tail)) >= 3) =>
                  last.err = "More than 2 units specified"

\* C8: a parse that raises leaves the default-unit store, in memory and
\* persisted, and the registry's enabled contexts as they were.
C8_FailedParseLeavesState ==
    [][(last'.name = "parse" /\ last'.err # "")
       => /\ _defs' = _defs
          /\ _settings' = _settings
          /\ enabled' = enabled]_vars

\* C9: parse_quantity advances one position per quantity character: the tail
\* is the query without its leading run of quantity characters, stripped,
\* and the quantity is the number that run spells.
C9_QuantityScan ==
    LET c == parse_context(last.query)
        s == SpecQuantity(c.query)
        r == parse_quantity(c.query)
    IN  (last.name = "parse" /\ c.err = "" /\ s.matched > 0) =>
            /\ r.tail = s.tail
            /\ s.ok => (r.kind = "number" /\ r.qty = s.qty)

\* C10: defaults(d) and is_default(d, u) return the empty list and False for
\* a dimensionality without saved units, write nothing to the settings store
\* and leave the in-memory mapping with the same keys and lists.
C10_ReadsChangeNothing ==
    [][(last'.name \in {"defaults", "is_default"})
       => /\ _settings' = _settings
          /\ _defs' = _defs
          /\ (last'.name = "defaults" /\ last'.d \notin DOMAIN _defs)
                => last'.ret = <<>>
          /\ (last'.name = "is_default" /\ last'.d \notin DOMAIN _defs)
                => ~last'.found]_vars

====
